---------------------------- MODULE Spec2Model ----------------------------
(***************************************************************************)
(* Campaign analytics dashboard (app.py): the synthetic funnel generator   *)
(* build_dummy, the four-field filter, the unique-HCP KPIs, the monthly    *)
(* unique-HCP trend and the funnel detail table.                           *)
(*                                                                         *)
(* Three specifications share the definitions below:                       *)
(*   SpecGen  build_dummy row by row, every rng.choice a free choice among *)
(*            the options of positive probability;                         *)
(*   SpecRng  build_dummy called repeatedly, every rng.choice read off a   *)
(*            seeded pseudo-random stream;                                 *)
(*   Spec     the dashboard script: a generated base table, then one       *)
(*            script run per change of a multiselect widget.               *)
(***************************************************************************)
EXTENDS Integers, Sequences, FiniteSets, TLC

VARIABLES
    heap,             \* object id -> DataFrame held by that object
    df,               \* object id bound to the name df
    filtered,         \* object id bound to the name filtered
    trend,            \* object id bound to the name trend
    f_brand,          \* the four multiselect values
    f_campaign,
    f_region,
    f_specialty,
    kpis,             \* the tuple returned by unique_kpis(filtered)
    monthly_unique,   \* the grouped frame, one row per month
    tbl,              \* the funnel detail table
    gen,              \* SpecGen: build_dummy's progress, row by row
    np_random_state,  \* SpecRng: the state of numpy's legacy global generator
    calls             \* SpecRng: a remembered call and the latest call

vars == <<heap, df, filtered, trend, f_brand, f_campaign, f_region, f_specialty,
          kpis, monthly_unique, tbl, gen, np_random_state, calls>>

(***************************************************************************)
(* Bounds of the model.                                                    *)
(***************************************************************************)
\* n_rows ranges over 0..MaxRows (over 1..MaxRows for the dashboard's table)
MaxRows == 3
\* seeds range over 0..MaxSeed
MaxSeed == 2
\* positions in hcp_pool that the free draws of Spec and SpecGen take
HcpDraws == {1, 2}
\* positions in dates that the free draws of Spec and SpecGen take
\* (2024-01-31 and 2024-02-01)
DateDraws == {31, 32}

(***************************************************************************)
(* build_dummy: the value lists                                            *)
(***************************************************************************)
brands == <<"Brand A", "Brand B">>

campaigns_by_brand ==
    ("Brand A" :> <<"Awareness", "Engagement">>) @@
    ("Brand B" :> <<"Retention", "New Launch">>)

specialties == <<"Cardiologist", "Oncologist", "Pediatrician", "Dermatologist",
                 "Endocrinologist", "Neurologist">>

regions == <<"N", "S", "E", "W">>

\* str(i): the decimal digits of i >= 0, most significant first
RECURSIVE str(_)
str(i) == IF i < 10 THEN <<i>> ELSE Append(str(i \div 10), i % 10)

\* s.zfill(width): s padded on the left with zeros to width characters
RECURSIVE zfill(_, _)
zfill(s, width) == IF Len(s) >= width THEN s ELSE zfill(<<0>> \o s, width)

\* f"HCP{str(i).zfill(5)}"
HcpId(i) == <<"HCP">> \o zfill(str(i), 5)

\* [f"HCP..." for i in range(1000, 1500)]
hcp_pool == [k \in 1..500 |-> HcpId(999 + k)]

\* number of days of month m of 2024 (a leap year)
DaysInMonth(m) ==
    IF m = 2 THEN 29
    ELSE IF m \in {4, 6, 9, 11} THEN 30 ELSE 31

\* the k-th day (k = 1 is 2024-01-01) of the daily range starting 2024-01-01
RECURSIVE DateFrom(_, _)
DateFrom(m, k) ==
    IF k <= DaysInMonth(m) THEN [year |-> 2024, month |-> m, day |-> k]
    ELSE DateFrom(m + 1, k - DaysInMonth(m))

\* pd.date_range("2024-01-01", "2024-12-31", freq="D")
dates == [k \in 1..366 |-> DateFrom(1, k)]

(***************************************************************************)
(* build_dummy: one element of each vectorised expression                  *)
(***************************************************************************)
\* Series.isin(values), one element
isin(v, values) == v \in values

\* np.where(cond, a, b), one element
np_where(cond, a, b) == IF cond THEN a ELSE b

\* int | int on 0/1 operands
BitOr(a, b) == IF a = 1 \/ b = 1 THEN 1 ELSE 0

\* Series.astype(int) of a boolean
AsInt(b) == IF b THEN 1 ELSE 0

\* reach = np.where(target == 1, draw, 0)
reach_of(target, draw) == np_where(target = 1, draw, 0)

\* open_base = np.where(reach == 1, draw, 0)
open_base_of(reach, draw) == np_where(reach = 1, draw, 0)

\* open_lift = (isin(campaign, ...) * draw1) | (eq(brand, "Brand A") * draw2)
open_lift_of(campaign, brand, draw1, draw2) ==
    BitOr(AsInt(isin(campaign, {"Engagement", "New Launch"})) * draw1,
          AsInt(brand = "Brand A") * draw2)

\* faulty variant: open_ set by any positive base or lift, the reach == 1 test lost
open_no_reach(reach, open_base, open_lift) ==
    np_where(open_base + open_lift > 0, 1, open_base)

\* open_ = np.where((reach == 1) & (open_base + open_lift > 0), 1, open_base)
open_of(reach, open_base, open_lift) ==
    np_where(reach = 1 /\ open_base + open_lift > 0, 1, open_base)

\* click_base = np.where(open_ == 1, draw, 0)
click_base_of(open, draw) == np_where(open = 1, draw, 0)

\* click_lift = isin(specialty, ...) * draw
click_lift_of(specialty, draw) ==
    AsInt(isin(specialty, {"Pediatrician", "Dermatologist"})) * draw

\* faulty variant: click set by any positive base or lift, the open_ == 1 test lost
click_no_open(open, click_base, click_lift) ==
    np_where(click_base + click_lift > 0, 1, click_base)

\* click = np.where((open_ == 1) & (click_base + click_lift > 0), 1, click_base)
click_of(open, click_base, click_lift) ==
    np_where(open = 1 /\ click_base + click_lift > 0, 1, click_base)

(***************************************************************************)
(* The draws of one row.  d holds, per rng.choice of build_dummy, the      *)
(* position (1-based) of the option drawn for this row.                    *)
(***************************************************************************)
\* the 0/1 value drawn by rng.choice([0, 1], ...)
Bit(pos) == <<0, 1>>[pos]

\* the record build_dummy puts in the DataFrame for one row
RowOf(d) ==
    LET brand      == brands[d.brand]
        campaign   == campaigns_by_brand[brand][d.campaign]
        specialty  == specialties[d.specialty]
        target     == Bit(d.target)
        reach      == reach_of(target, Bit(d.reach))
        open_base  == open_base_of(reach, Bit(d.open_base))
        open_lift  == open_lift_of(campaign, brand, Bit(d.lift_campaign), Bit(d.lift_brand))
        open       == open_of(reach, open_base, open_lift)
        click_base == click_base_of(open, Bit(d.click_base))
        click_lift == click_lift_of(specialty, Bit(d.lift_specialty))
        click      == click_of(open, click_base, click_lift)
    IN  [hcp_id           |-> hcp_pool[d.hcp],
         brand_name       |-> brand,
         campaign_name    |-> campaign,
         date_of_campaign |-> dates[d.date],
         target           |-> target,
         reach            |-> reach,
         open             |-> open,
         click            |-> click,
         hcp_specialty    |-> specialty,
         hcp_region       |-> regions[d.region]]

\* rng.choice(a, p=p): the positions of a that have positive probability
\* (p in percent)
ChoicePositions(p) == {i \in DOMAIN p : p[i] > 0}

\* the draws one row can take; the hcp, date, brand, campaign, specialty and
\* region positions restricted to hs, ds, bs, cs, ss and rs
Draws(hs, ds, bs, cs, ss, rs) ==
    [hcp            : hs,
     brand          : bs,
     campaign       : cs,
     date           : ds,
     specialty      : ss,
     region         : ChoicePositions(<<30, 25, 25, 20>>) \cap rs,
     target         : ChoicePositions(<<15, 85>>),
     reach          : ChoicePositions(<<32, 68>>),
     open_base      : ChoicePositions(<<58, 42>>),
     lift_campaign  : ChoicePositions(<<65, 35>>),
     lift_brand     : ChoicePositions(<<78, 22>>),
     click_base     : ChoicePositions(<<80, 20>>),
     lift_specialty : ChoicePositions(<<82, 18>>)]

(***************************************************************************)
(* DataFrames.  A frame holds its index labels, its column names, one      *)
(* record per row for the ten generated columns, and the values of the     *)
(* "month" column (empty while the frame has no such column).  Frames live *)
(* in the heap; the script's names df, filtered and trend hold object ids, *)
(* named after the expression that allocates the object.                   *)
(***************************************************************************)
BaseColumns == <<"hcp id", "brand name", "campaign name", "date of campaign",
                 "target (1 or 0)", "reach (1 or 0)", "open (1 or 0)",
                 "click (1 or 0)", "hcp specialty", "hcp region (N/S/E/W)">>

\* frame[column], at one row
Cell(row, column) ==
    CASE column = "hcp id"               -> row.hcp_id
      [] column = "brand name"           -> row.brand_name
      [] column = "campaign name"        -> row.campaign_name
      [] column = "date of campaign"     -> row.date_of_campaign
      [] column = "target (1 or 0)"      -> row.target
      [] column = "reach (1 or 0)"       -> row.reach
      [] column = "open (1 or 0)"        -> row.open
      [] column = "click (1 or 0)"       -> row.click
      [] column = "hcp specialty"        -> row.hcp_specialty
      [] column = "hcp region (N/S/E/W)" -> row.hcp_region

\* pd.DataFrame({...}): the rows under a fresh RangeIndex 0..n-1
DataFrame(rows) ==
    [index   |-> [k \in 1..Len(rows) |-> k - 1],
     columns |-> BaseColumns,
     rows    |-> rows,
     month   |-> <<>>]

\* the frame of an object that is not allocated
NoFrame == [index |-> <<>>, columns |-> <<>>, rows |-> <<>>, month |-> <<>>]

\* Series.unique(): the distinct values in order of first appearance
RECURSIVE unique(_)
unique(s) ==
    IF s = <<>> THEN <<>>
    ELSE LET front == unique(SubSeq(s, 1, Len(s) - 1))
             last  == s[Len(s)]
         IN  IF \E k \in DOMAIN front : front[k] = last
             THEN front ELSE Append(front, last)

\* faulty variant: every value counted, repeated or not
count_rows(s) == Len(s)

\* Series.nunique()
nunique(s) == Len(unique(s))

\* frame[column] as a sequence of values
Column(frame, column) == [k \in DOMAIN frame.rows |-> Cell(frame.rows[k], column)]

\* the set of values of a sequence
Range(s) == {s[k] : k \in DOMAIN s}

\* faulty variant: an empty selection read as no restriction
isin_empty_is_all(series, values) ==
    [k \in DOMAIN series |-> values = {} \/ isin(series[k], values)]

\* Series.isin(values) over a whole column
Series_isin(series, values) == [k \in DOMAIN series |-> isin(series[k], values)]

\* mask = isin(f_brand) & isin(f_campaign) & isin(f_region) & isin(f_specialty)
mask(frame, fb, fc, fr, fs) ==
    LET b == Series_isin(Column(frame, "brand name"), fb)
        c == Series_isin(Column(frame, "campaign name"), fc)
        r == Series_isin(Column(frame, "hcp region (N/S/E/W)"), fr)
        s == Series_isin(Column(frame, "hcp specialty"), fs)
    IN  [k \in DOMAIN frame.rows |-> b[k] /\ c[k] /\ r[k] /\ s[k]]

\* the positions, in order, at which a boolean series is true
RECURSIVE TruePositions(_, _)
TruePositions(m, upto) ==
    IF upto = 0 THEN <<>>
    ELSE IF m[upto] THEN Append(TruePositions(m, upto - 1), upto)
         ELSE TruePositions(m, upto - 1)

\* frame[m] for a boolean series m: a new frame of the rows where m is true,
\* each with the index label it had
boolean_index(frame, m) ==
    LET pos == TruePositions(m, Len(frame.rows))
    IN  [index   |-> [k \in DOMAIN pos |-> frame.index[pos[k]]],
         columns |-> frame.columns,
         rows    |-> [k \in DOMAIN pos |-> frame.rows[pos[k]]],
         month   |-> IF frame.month = <<>> THEN <<>>
                     ELSE [k \in DOMAIN pos |-> frame.month[pos[k]]]]

\* d.loc[d[flag] == 1, "hcp id"]
loc_flag(d, flag) ==
    Column(boolean_index(d, [k \in DOMAIN d.rows |-> Cell(d.rows[k], flag) = 1]),
           "hcp id")

(***************************************************************************)
(* unique_kpis                                                             *)
(***************************************************************************)
RECURSIVE Gcd(_, _)
Gcd(a, b) == IF b = 0 THEN a ELSE Gcd(b, a % b)

\* a / b for b > 0, as the fraction in lowest terms
Div(a, b) == [num |-> a \div Gcd(a, b), den |-> b \div Gcd(a, b)]

\* the int 0, equal to the float 0.0
Zero == [num |-> 0, den |-> 1]

\* the float 1.0
One == [num |-> 1, den |-> 1]

\* np.nan
NaN == [num |-> 0, den |-> 0]

\* faulty variant: a zero denominator left to give nan
rate_or_nan(a, b) == IF b # 0 THEN Div(a, b) ELSE NaN

\* a / b if b else 0
rate_or_zero(a, b) == IF b # 0 THEN Div(a, b) ELSE Zero

unique_kpis(d) ==
    LET tgt == nunique(loc_flag(d, "target (1 or 0)"))
        rch == nunique(loc_flag(d, "reach (1 or 0)"))
        opn == nunique(loc_flag(d, "open (1 or 0)"))
        clk == nunique(loc_flag(d, "click (1 or 0)"))
    IN  [tgt_hcps   |-> tgt,
         rch_hcps   |-> rch,
         opn_hcps   |-> opn,
         clk_hcps   |-> clk,
         reach_rate |-> rate_or_zero(rch, tgt),
         open_rate  |-> rate_or_zero(opn, rch),
         ctor       |-> rate_or_zero(clk, opn)]

\* the funnel detail table: a / b if b else np.nan
tbl_rate(a, b) == IF b # 0 THEN Div(a, b) ELSE NaN

funnel_table(k) ==
    [Stage   |-> <<"Target", "Reach", "Open", "Click">>,
     Unique_HCPs |-> <<k.tgt_hcps, k.rch_hcps, k.opn_hcps, k.clk_hcps>>,
     Rate_vs_Previous_Stage |->
         <<One,
           tbl_rate(k.rch_hcps, k.tgt_hcps),
           tbl_rate(k.opn_hcps, k.rch_hcps),
           tbl_rate(k.clk_hcps, k.opn_hcps)>>]

(***************************************************************************)
(* The monthly trend                                                       *)
(***************************************************************************)
\* faulty variant: dt.to_period("Q"), the quarter in place of the month
to_period_Q(date) == [year |-> date.year, month |-> (date.month - 1) \div 3 + 1]

\* dt.to_period("M").astype(str), one element: "2024-02" is year 2024, month 2
to_period_M(date) == [year |-> date.year, month |-> date.month]

\* faulty variant: the copy is the object it was taken from
copy_alias(src, site) == src

\* DataFrame.copy(): the object id of the copy, a new object allocated at site
copy_object(src, site) == site

\* frame["month"] = values, on the frame itself
setitem_month(frame, values) ==
    [frame EXCEPT !.columns = IF \E k \in DOMAIN @ : @[k] = "month"
                              THEN @ ELSE Append(@, "month"),
                  !.month   = values]

\* the order of the period strings: by year, then by month
LabelLeq(a, b) == a.year < b.year \/ (a.year = b.year /\ a.month <= b.month)

\* the values of S in increasing order
RECURSIVE Sorted(_)
Sorted(S) ==
    IF S = {} THEN <<>>
    ELSE LET least == CHOOSE x \in S : \A y \in S : LabelLeq(x, y)
         IN  <<least>> \o Sorted(S \ {least})

\* groupby("month"): the group of one key, each row with its index label
group_of(frame, key) ==
    boolean_index(frame, [k \in DOMAIN frame.rows |-> frame.month[k] = key])

\* frame.loc[labels, column]: for each label in turn, the rows carrying it
RECURSIVE loc_labels(_, _, _)
loc_labels(frame, labels, column) ==
    IF labels = <<>> THEN <<>>
    ELSE loc_labels(frame, SubSeq(labels, 1, Len(labels) - 1), column) \o
         Column(boolean_index(frame, [k \in DOMAIN frame.rows |->
                                         frame.index[k] = labels[Len(labels)]]),
                column)

\* x.index[x == 1] for the series x = group[flag]
flagged_index(group, flag) ==
    boolean_index(group, [k \in DOMAIN group.rows |-> Cell(group.rows[k], flag) = 1]).index

\* faulty variant: the lambda ignores its group and reads every flagged row of trend
agg_flag_whole_frame(outer, group, flag) == nunique(loc_flag(outer, flag))

\* lambda x: trend.loc[x.index[x == 1], "hcp id"].nunique()
agg_flag(outer, group, flag) ==
    nunique(loc_labels(outer, flagged_index(group, flag), "hcp id"))

\* trend.groupby("month").agg({...}).rename(...).reset_index()
groupby_month_agg(frame) ==
    LET keys == Sorted(Range(frame.month))
    IN  [g \in DOMAIN keys |->
            LET group == group_of(frame, keys[g])
            IN  [month      |-> keys[g],
                 Total_HCPs |-> nunique(Column(group, "hcp id")),
                 Target     |-> agg_flag(frame, group, "target (1 or 0)"),
                 Reach      |-> agg_flag(frame, group, "reach (1 or 0)"),
                 Open       |-> agg_flag(frame, group, "open (1 or 0)"),
                 Click      |-> agg_flag(frame, group, "click (1 or 0)")]]

(***************************************************************************)
(* The script, from the widgets to the detail table                        *)
(***************************************************************************)
ObjIds == {"build_dummy()", "df[mask]", "filtered.copy()"}

\* list(df[column].unique()): the options, and the default, of a multiselect
options(frame, column) == Range(unique(Column(frame, column)))

\* the state the script leaves, given the base table and the widget values
RunScript(base, fb, fc, fr, fs) ==
    LET o_df  == "build_dummy()"
        o_flt == "df[mask]"
        h0    == [o \in ObjIds |-> IF o = o_df THEN base ELSE NoFrame]
        h1    == [h0 EXCEPT ![o_flt] = boolean_index(h0[o_df], mask(h0[o_df], fb, fc, fr, fs))]
        k     == unique_kpis(h1[o_flt])
        o_trd == copy_object(o_flt, "filtered.copy()")
        h2    == [h1 EXCEPT ![o_trd] = h1[o_flt]]
        h3    == [h2 EXCEPT ![o_trd] = setitem_month(@,
                     [r \in DOMAIN @.rows |-> to_period_M(@.rows[r].date_of_campaign)])]
    IN  [heap |-> h3, df |-> o_df, filtered |-> o_flt, trend |-> o_trd,
         kpis |-> k,
         monthly_unique |-> groupby_month_agg(h3[o_trd]),
         tbl |-> funnel_table(k)]

(***************************************************************************)
(* Spec: the dashboard.  The base table is any table build_dummy returns   *)
(* for draws of the sampled positions; Init is the state after the first   *)
(* script run, every multiselect at its default (all options).  A step is  *)
(* one script run after the user has set one multiselect to a subset of    *)
(* its options; the model follows a session up to its first change of a    *)
(* widget.  A run calls build_dummy() again with the same seed and gets    *)
(* the same table (see SpecRng), so the base table of a run is the one     *)
(* already held.                                                           *)
(***************************************************************************)
\* positions of the brand, campaign, specialty and region draws sampled in
\* Spec: Brand A with both its campaigns, one specialty, one region
BrandDraws == {1}
CampaignDraws == {1, 2}
SpecialtyDraws == {1}
RegionDraws == {1}

\* the rows build_dummy can produce from the sampled draws
SampleRows ==
    {RowOf(d) : d \in Draws(HcpDraws, DateDraws, BrandDraws, CampaignDraws, SpecialtyDraws, RegionDraws)}

\* gen, np_random_state and calls while the dashboard runs
GenIdle == [n_rows |-> 0, stored |-> 0, draws |-> <<>>, row |-> <<>>]
CallsIdle == [ref |-> <<>>, last |-> <<>>, between |-> FALSE]

Widgets == {"brand name", "campaign name", "hcp region (N/S/E/W)", "hcp specialty"}

\* the value of one multiselect: sel for the widget the user set, else the default
widget_value(base, column, w, sel) ==
    IF column = w THEN sel ELSE options(base, column)

Init ==
    \E n \in 1..MaxRows : \E rows \in [1..n -> SampleRows] :
        LET base == DataFrame(rows)
            fb   == options(base, "brand name")
            fc   == options(base, "campaign name")
            fr   == options(base, "hcp region (N/S/E/W)")
            fs   == options(base, "hcp specialty")
        IN  \E run \in {RunScript(base, fb, fc, fr, fs)} :
            /\ heap = run.heap
            /\ df = run.df
            /\ filtered = run.filtered
            /\ trend = run.trend
            /\ f_brand = fb
            /\ f_campaign = fc
            /\ f_region = fr
            /\ f_specialty = fs
            /\ kpis = run.kpis
            /\ monthly_unique = run.monthly_unique
            /\ tbl = run.tbl
            /\ gen = GenIdle
            /\ np_random_state = 0
            /\ calls = CallsIdle

\* every multiselect holds its default
AllDefault ==
    /\ f_brand = options(heap[df], "brand name")
    /\ f_campaign = options(heap[df], "campaign name")
    /\ f_region = options(heap[df], "hcp region (N/S/E/W)")
    /\ f_specialty = options(heap[df], "hcp specialty")

\* the user sets multiselect w to sel; the script runs top to bottom
Rerun ==
    /\ AllDefault
    /\ \E w \in Widgets : \E sel \in (SUBSET options(heap[df], w)) \ {options(heap[df], w)} :
        LET base == heap[df]
            fb   == widget_value(base, "brand name", w, sel)
            fc   == widget_value(base, "campaign name", w, sel)
            fr   == widget_value(base, "hcp region (N/S/E/W)", w, sel)
            fs   == widget_value(base, "hcp specialty", w, sel)
        IN  \E run \in {RunScript(base, fb, fc, fr, fs)} :
            /\ heap' = run.heap
            /\ df' = run.df
            /\ filtered' = run.filtered
            /\ trend' = run.trend
            /\ f_brand' = fb
            /\ f_campaign' = fc
            /\ f_region' = fr
            /\ f_specialty' = fs
            /\ kpis' = run.kpis
            /\ monthly_unique' = run.monthly_unique
            /\ tbl' = run.tbl
            /\ UNCHANGED <<gen, np_random_state, calls>>

Next == Rerun

Spec == Init /\ [][Next]_vars

(***************************************************************************)
(* SpecGen: build_dummy(seed, n_rows) row by row.  The vectorised          *)
(* expressions act element by element, so row i of the result depends on   *)
(* the i-th element of each draw only; GenDraw computes row i from any     *)
(* draws of positive probability (gen.draws keeps them beside the row) and *)
(* GenStore puts the row in the table.                                     *)
(***************************************************************************)
AllDraws ==
    Draws(HcpDraws, DateDraws, 1..Len(brands), 1..2, 1..Len(specialties), 1..Len(regions))

DashIdle ==
    /\ heap = [o \in ObjIds |-> NoFrame]
    /\ df = "build_dummy()"
    /\ filtered = "df[mask]"
    /\ trend = "filtered.copy()"
    /\ f_brand = {}
    /\ f_campaign = {}
    /\ f_region = {}
    /\ f_specialty = {}
    /\ kpis = unique_kpis(NoFrame)
    /\ monthly_unique = <<>>
    /\ tbl = funnel_table(unique_kpis(NoFrame))

dash == <<heap, df, filtered, trend, f_brand, f_campaign, f_region, f_specialty,
          kpis, monthly_unique, tbl>>

InitGen ==
    /\ DashIdle
    /\ \E n \in 0..MaxRows : gen = [GenIdle EXCEPT !.n_rows = n]
    /\ np_random_state = 0
    /\ calls = CallsIdle

GenDraw ==
    /\ gen.row = <<>>
    /\ gen.stored < gen.n_rows
    /\ \E d \in AllDraws : gen' = [gen EXCEPT !.draws = <<d>>, !.row = <<RowOf(d)>>]
    /\ UNCHANGED <<dash, np_random_state, calls>>

GenStore ==
    /\ gen.row # <<>>
    /\ gen' = [gen EXCEPT !.stored = @ + 1, !.draws = <<>>, !.row = <<>>]
    /\ UNCHANGED <<dash, np_random_state, calls>>

NextGen == GenDraw \/ GenStore

SpecGen == InitGen /\ [][NextGen]_vars

(***************************************************************************)
(* SpecRng: build_dummy(seed, n_rows) called again and again.  A generator *)
(* is a state in 0..1023 advanced by a full-period congruence, one advance *)
(* per element drawn; a draw reads the option off the state it reaches.    *)
(* The draws are taken column by column, in the order of build_dummy's     *)
(* rng.choice calls.                                                       *)
(***************************************************************************)
\* the seed build_dummy defaults to
DefaultSeed == 17

Seeds == (0..MaxSeed) \cup {DefaultSeed}

\* np.random.seed(seed): the state the legacy global generator is left in
legacy_seed(seed) == (seed * 29 + 7) % 1024

\* faulty variant: the generator is not seeded and goes on from the global state that
\* the calls before left behind
default_rng_unseeded(seed) == np_random_state

\* np.random.default_rng(seed): the state of the new generator
default_rng(seed) == (seed * 167 + 13) % 1024

\* one advance of a generator
rng_next(state) == (state * 73 + 41) % 1024

\* the state after k advances (half of them, then the other half)
rng_advance[state \in 0..1023, k \in Nat] ==
    IF k = 0 THEN state
    ELSE IF k = 1 THEN rng_next(state)
    ELSE rng_advance[rng_advance[state, k \div 2], k - (k \div 2)]

\* the position rng.choice(a, p=p) takes at a state: the first position whose
\* cumulative probability (in 1/1024) exceeds the state
RECURSIVE choice_p(_, _, _)
choice_p(state, weights, pos) ==
    IF pos = Len(weights) \/ state < weights[pos] THEN pos
    ELSE choice_p(state - weights[pos], weights, pos + 1)

\* p in percent, as weights in 1/1024
Weights(p) == [k \in DOMAIN p |-> (p[k] * 1024) \div 100]

\* the position rng.choice(a) takes at a state, a of m options, without p
choice(state, m) == (state * m) \div 1024 + 1

\* the draws of row i of n_rows: the j-th rng.choice call of build_dummy
\* (j = 0 for hcp_ids) reads its i-th element after j * n_rows + i advances
rng_draws(state0, n_rows, i) ==
    LET at(j) == rng_advance[state0, j * n_rows + i]
    IN  [hcp            |-> choice(at(0), Len(hcp_pool)),
         brand          |-> choice(at(1), Len(brands)),
         campaign       |-> choice(at(2), 2),
         date           |-> choice(at(3), Len(dates)),
         specialty      |-> choice(at(4), Len(specialties)),
         region         |-> choice_p(at(5), Weights(<<30, 25, 25, 20>>), 1),
         target         |-> choice_p(at(6), Weights(<<15, 85>>), 1),
         reach          |-> choice_p(at(7), Weights(<<32, 68>>), 1),
         open_base      |-> choice_p(at(8), Weights(<<58, 42>>), 1),
         lift_campaign  |-> choice_p(at(9), Weights(<<65, 35>>), 1),
         lift_brand     |-> choice_p(at(10), Weights(<<78, 22>>), 1),
         click_base     |-> choice_p(at(11), Weights(<<80, 20>>), 1),
         lift_specialty |-> choice_p(at(12), Weights(<<82, 18>>), 1)]

\* build_dummy(seed, n_rows): the DataFrame returned
build_dummy(seed, n_rows) ==
    LET rng == default_rng(seed)
    IN  DataFrame([i \in 1..n_rows |-> RowOf(rng_draws(rng, n_rows, i))])

InitRng ==
    /\ DashIdle
    /\ gen = GenIdle
    /\ np_random_state \in {legacy_seed(e) : e \in Seeds}
    /\ calls = [ref |-> <<>>, last |-> <<>>, between |-> FALSE]

\* one call build_dummy(seed, n_rows).  calls.ref keeps the first call made,
\* calls.last the latest, calls.between whether a call with other arguments
\* followed the first.
CallBuildDummy ==
    \E seed \in Seeds : \E n \in 0..MaxRows :
        LET call == [seed |-> seed, n_rows |-> n, out |-> build_dummy(seed, n)] IN
            /\ np_random_state' = legacy_seed(seed)
            /\ calls' = [ref     |-> IF calls.ref = <<>> THEN <<call>> ELSE calls.ref,
                         last    |-> <<call>>,
                         between |-> \/ calls.between
                                     \/ /\ calls.ref # <<>>
                                        /\ <<calls.ref[1].seed, calls.ref[1].n_rows>> # <<seed, n>>]
            /\ UNCHANGED <<dash, gen>>

NextRng == CallBuildDummy

SpecRng == InitRng /\ [][NextRng]_vars

(***************************************************************************)
(* Claims                                                                  *)
(***************************************************************************)
\* the flags of a row respect the funnel order
Monotone(r) ==
    /\ r.click = 1 => r.open = 1
    /\ r.open = 1 => r.reach = 1
    /\ r.reach = 1 => r.target = 1

\* C1: funnel monotonicity.  Every row build_dummy generates, whatever its
\* base draws and lift draws, has click = 1 only with open = 1, open = 1 only
\* with reach = 1 and reach = 1 only with target = 1.
C1_FunnelMonotone == gen.row # <<>> => Monotone(gen.row[1])

\* C1 witness: a targeted row that was not reached, of the brand, campaign
\* and specialty that get a lift, every lift draw and base draw being 1; its
\* open and click flags are 0.
C1_Witness ==
    /\ gen.row # <<>>
    /\ gen.row[1].brand_name = "Brand A"
    /\ gen.row[1].campaign_name = "Engagement"
    /\ gen.row[1].hcp_specialty = "Pediatrician"
    /\ Bit(gen.draws[1].target) = 1
    /\ Bit(gen.draws[1].reach) = 0
    /\ Bit(gen.draws[1].open_base) = 1
    /\ Bit(gen.draws[1].lift_campaign) = 1
    /\ Bit(gen.draws[1].lift_brand) = 1
    /\ Bit(gen.draws[1].click_base) = 1
    /\ Bit(gen.draws[1].lift_specialty) = 1
    /\ gen.row[1].open = 0
    /\ gen.row[1].click = 0

\* the rows of the filtered frame, and its positions whose flag is 1
FRows == heap[filtered].rows
Flagged(flag) == {k \in DOMAIN FRows : Cell(FRows[k], flag) = 1}

\* the distinct hcp ids among the rows at the positions ks of filtered
Hcps(ks) == {FRows[k].hcp_id : k \in ks}

\* C2: unique_kpis never fails on a zero denominator.  reach_rate is 0 when
\* the target count is 0, open_rate is 0 when the reach count is 0, ctor is 0
\* when the open count is 0, every rate is a number, and for an empty input
\* the four counts and the three rates are all 0.
C2_ZeroDenominators ==
    /\ kpis.tgt_hcps = 0 => kpis.reach_rate = Zero
    /\ kpis.rch_hcps = 0 => kpis.open_rate = Zero
    /\ kpis.opn_hcps = 0 => kpis.ctor = Zero
    /\ \A r \in {kpis.reach_rate, kpis.open_rate, kpis.ctor} : r # NaN /\ r.den > 0
    /\ FRows = <<>> =>
          /\ <<kpis.tgt_hcps, kpis.rch_hcps, kpis.opn_hcps, kpis.clk_hcps>> = <<0, 0, 0, 0>>
          /\ <<kpis.reach_rate, kpis.open_rate, kpis.ctor>> = <<Zero, Zero, Zero>>

\* C2 witness: a filter has removed every row of a base table that holds a
\* clicked row, and the three rates are 0.
C2_Witness ==
    /\ \E k \in DOMAIN heap[df].rows : heap[df].rows[k].click = 1
    /\ FRows = <<>>
    /\ <<kpis.reach_rate, kpis.open_rate, kpis.ctor>> = <<Zero, Zero, Zero>>

\* C3 (as claimed): in the detail table the Target row's rate is 1.0 and each
\* later row holds count / previous count, or 0 when the previous count is 0;
\* no row holds NaN.  Stated for the base tables that hold a clicked row, so
\* that a zero count comes from the user's filter.
C3_TableRatesDefined ==
    LET n == tbl.Unique_HCPs
        r == tbl.Rate_vs_Previous_Stage
    IN  (\E k \in DOMAIN heap[df].rows : heap[df].rows[k].click = 1) =>
            /\ r[1] = One
            /\ \A i \in 2..4 :
                  /\ r[i] # NaN
                  /\ r[i] = IF n[i - 1] = 0 THEN Zero ELSE Div(n[i], n[i - 1])

\* whether row k of the base table passes the four selections
Selected(k) ==
    LET r == heap[df].rows[k]
    IN  /\ r.brand_name \in f_brand
        /\ r.campaign_name \in f_campaign
        /\ r.hcp_region \in f_region
        /\ r.hcp_specialty \in f_specialty

\* C4: filtering keeps a record iff its brand, campaign, region and specialty
\* are each in the selected set, the kept records are in their original
\* order, and an empty selection for any field gives an empty result.
C4_FilterIff ==
    LET D    == heap[df]
        F    == heap[filtered]
        kept == {k \in DOMAIN D.rows : Selected(k)}
    IN  /\ Range(F.index) = {D.index[k] : k \in kept}
        /\ Len(F.rows) = Cardinality(kept)
        /\ Len(F.index) = Len(F.rows)
        /\ \A j \in DOMAIN F.rows :
              \E k \in kept : D.index[k] = F.index[j] /\ D.rows[k] = F.rows[j]
        /\ \A i, j \in DOMAIN F.rows :
              i < j => \E a, b \in kept :
                          a < b /\ D.index[a] = F.index[i] /\ D.index[b] = F.index[j]
        /\ ({} \in {f_brand, f_campaign, f_region, f_specialty}) => F.rows = <<>>

\* C4 witness: a selection that drops the middle row of three and keeps the
\* two around it, in order.
C4_Witness ==
    /\ Len(heap[df].rows) = 3
    /\ heap[filtered].index = <<0, 2>>
    /\ {} \notin {f_brand, f_campaign, f_region, f_specialty}

\* C5: each stage count of unique_kpis is the number of distinct hcp ids
\* among the input rows with that stage's flag 1, not the number of rows.
C5_DistinctHcps ==
    /\ kpis.tgt_hcps = Cardinality(Hcps(Flagged("target (1 or 0)")))
    /\ kpis.rch_hcps = Cardinality(Hcps(Flagged("reach (1 or 0)")))
    /\ kpis.opn_hcps = Cardinality(Hcps(Flagged("open (1 or 0)")))
    /\ kpis.clk_hcps = Cardinality(Hcps(Flagged("click (1 or 0)")))

\* C5 witness: one HCP in 3 rows, all with target = 1, counted once.
C5_Witness ==
    /\ Len(FRows) = 3
    /\ Cardinality(Flagged("target (1 or 0)")) = 3
    /\ Cardinality(Hcps(DOMAIN FRows)) = 1
    /\ kpis.tgt_hcps = 1

\* the period a row of filtered falls in
PeriodOf(k) ==
    [year |-> FRows[k].date_of_campaign.year, month |-> FRows[k].date_of_campaign.month]

\* the positions of filtered that fall in period m
InPeriod(m) == {k \in DOMAIN FRows : PeriodOf(k) = m}

\* C6: in the monthly aggregation there is one row per period present in the
\* filtered input, and each stage count of a period is the number of distinct
\* hcp ids among that period's rows with the stage's flag 1; rows of other
\* periods never contribute.
C6_PerPeriodCounts ==
    /\ {monthly_unique[g].month : g \in DOMAIN monthly_unique} =
          {PeriodOf(k) : k \in DOMAIN FRows}
    /\ Len(monthly_unique) = Cardinality({PeriodOf(k) : k \in DOMAIN FRows})
    /\ \A g \in DOMAIN monthly_unique :
          LET row == monthly_unique[g]
              ks  == InPeriod(row.month)
          IN  /\ row.Total_HCPs = Cardinality(Hcps(ks))
              /\ row.Target = Cardinality(Hcps(ks \cap Flagged("target (1 or 0)")))
              /\ row.Reach  = Cardinality(Hcps(ks \cap Flagged("reach (1 or 0)")))
              /\ row.Open   = Cardinality(Hcps(ks \cap Flagged("open (1 or 0)")))
              /\ row.Click  = Cardinality(Hcps(ks \cap Flagged("click (1 or 0)")))

\* C6 witness: the filtered subset keeps the labels 0 and 2 of the base
\* table, its two rows are of one HCP, clicked in both, in two periods; each
\* period counts that HCP once at every stage.
C6_Witness ==
    /\ heap[filtered].index = <<0, 2>>
    /\ Cardinality(Hcps(DOMAIN FRows)) = 1
    /\ Flagged("click (1 or 0)") = {1, 2}
    /\ Len(monthly_unique) = 2
    /\ \A g \in {1, 2} :
          <<monthly_unique[g].Target, monthly_unique[g].Click>> = <<1, 1>>

\* the sum of the per-period Target counts
RECURSIVE SumTarget(_)
SumTarget(g) == IF g = 0 THEN 0 ELSE SumTarget(g - 1) + monthly_unique[g].Target

\* the labels are distinct months of 2024
LabelsOf2024 ==
    /\ \A g \in DOMAIN monthly_unique :
          monthly_unique[g].month \in [year : {2024}, month : 1..12]
    /\ \A g, h \in DOMAIN monthly_unique :
          g # h => monthly_unique[g].month # monthly_unique[h].month

\* some HCP has a targeted row in two different periods of filtered
TargetedInTwoPeriods ==
    \E a, b \in Flagged("target (1 or 0)") :
        FRows[a].hcp_id = FRows[b].hcp_id /\ PeriodOf(a) # PeriodOf(b)

FramesIntact ==
    LET D == heap[df]
        F == heap[filtered]
        T == heap[trend]
    IN  /\ D.columns = BaseColumns /\ D.month = <<>>
        /\ D.index = [k \in DOMAIN D.rows |-> k - 1]
        /\ F.columns = BaseColumns /\ F.month = <<>>
        /\ \A j \in DOMAIN F.rows :
              \E k \in DOMAIN D.rows : D.index[k] = F.index[j] /\ D.rows[k] = F.rows[j]
        /\ Cardinality({df, filtered, trend}) = 3
        /\ T.columns = Append(BaseColumns, "month")
        /\ T.rows = F.rows /\ T.index = F.index
        /\ Len(T.month) = Len(T.rows)

\* C8: the base table is immutable.  Over a script run the base table keeps
\* its rows, columns and values; the filter, the KPIs and the trend leave it
\* and the filtered subset as they were made, and the month column is added
\* to a separate copy only.
C8_BaseImmutable ==
    [][FramesIntact /\ FramesIntact' /\ df' = df /\ heap'[df'] = heap[df]]_vars

\* C8 witness: a run whose filter dropped a row and whose trend carries a
\* month value per kept row.
C8_Witness ==
    /\ ~AllDefault
    /\ Len(FRows) = 2
    /\ Len(heap[df].rows) = 3
    /\ Len(heap[trend].month) = 2

InUnit(r) == r.den > 0 /\ 0 <= r.num /\ r.num <= r.den

\* C10: the unique-HCP stage counts never increase along the funnel, overall
\* and within every period of the monthly trend (where Total HCPs >= Target),
\* so reach_rate, open_rate and ctor lie between 0 and 1.
C10_CountsNonIncreasing ==
    /\ kpis.tgt_hcps >= kpis.rch_hcps
    /\ kpis.rch_hcps >= kpis.opn_hcps
    /\ kpis.opn_hcps >= kpis.clk_hcps
    /\ \A g \in DOMAIN monthly_unique :
          /\ monthly_unique[g].Total_HCPs >= monthly_unique[g].Target
          /\ monthly_unique[g].Target >= monthly_unique[g].Reach
          /\ monthly_unique[g].Reach >= monthly_unique[g].Open
          /\ monthly_unique[g].Open >= monthly_unique[g].Click
    /\ InUnit(kpis.reach_rate) /\ InUnit(kpis.open_rate) /\ InUnit(kpis.ctor)

\* C10 witness: after a filter, two HCPs in two periods, both targeted, one
\* reached, none opened: the counts fall 2, 1, 0 and reach_rate is 1/2.
C10_Witness ==
    /\ ~AllDefault
    /\ Len(monthly_unique) = 2
    /\ <<kpis.tgt_hcps, kpis.rch_hcps, kpis.opn_hcps, kpis.clk_hcps>> = <<2, 1, 0, 0>>
    /\ kpis.reach_rate = [num |-> 1, den |-> 2]
    /\ kpis.open_rate = Zero

=============================================================================
